---- MODULE Spec2Model ----
(***************************************************************************)
(* Model of the OCR service's language/model catalog and of the resolution *)
(* of a request's language/model parameters against it.                    *)
(*                                                                         *)
(* A Rust String is a sequence of tokens.  A token is one character, or    *)
(* one of the two file extensions, kept whole: no other token sequence of  *)
(* the alphabet spells an extension, so prefix and suffix tests on tokens  *)
(* agree with the tests on characters.  Option<T> is a sequence of length  *)
(* 0 (None) or 1 (Some).                                                   *)
(***************************************************************************)
EXTENDS Integers, Sequences, FiniteSets, TLC

\* Largest number of files in the tessdata tree.
MaxFiles == 3

None == << >>
Some(x) == << x >>

-----------------------------------------------------------------------------
(* Strings *)

TRAINEDDATA == << ".traineddata" >>
TXT == << ".txt" >>

\* Tokens whose first character is '.'.
DotTokens == { ".", ".traineddata", ".txt" }

starts_with(s, p) == Len(s) >= Len(p) /\ SubSeq(s, 1, Len(p)) = p
ends_with(s, p) == Len(s) >= Len(p) /\ SubSeq(s, Len(s) - Len(p) + 1, Len(s)) = p

\* str::starts_with(".")
starts_with_dot(s) == Len(s) >= 1 /\ s[1] \in DotTokens

\* str::strip_prefix: Some(rest) when s starts with p, None otherwise.
strip_prefix(s, p) == IF starts_with(s, p) THEN Some(SubSeq(s, Len(p) + 1, Len(s))) ELSE None

\* str::strip_suffix: removes the suffix once.
strip_suffix(s, p) == IF ends_with(s, p) THEN Some(SubSeq(s, 1, Len(s) - Len(p))) ELSE None

\* str::trim_end_matches: removes the suffix as often as it occurs.
RECURSIVE trim_end_matches(_, _)
trim_end_matches(s, p) ==
    IF Len(p) > 0 /\ ends_with(s, p)
    THEN trim_end_matches(SubSeq(s, 1, Len(s) - Len(p)), p)
    ELSE s

\* Option::unwrap_or / unwrap_or_default on an Option<&str>.
unwrap_or(o, d) == IF o = None THEN d ELSE o[1]

\* Path::join(root, name): a separator is pushed unless root ends with one.
path_join(root, name) ==
    IF ends_with(root, << "/" >>) THEN root \o name ELSE root \o << "/" >> \o name

-----------------------------------------------------------------------------
(* The tessdata tree: a set of regular files, each a path of components    *)
(* below the root.  Directories are the proper prefixes of the paths.      *)

FileUniverse ==
    { << <<"a", ".traineddata">> >>,
      << <<"a", "_", "b", ".traineddata">> >>,
      << <<"a", ".traineddata", ".traineddata">> >>,
      << <<".", "h", ".traineddata">> >>,
      << <<"a", ".txt">> >>,
      << <<"a">>, <<"b", ".traineddata">> >>,
      << <<"a">>, <<"b", ".traineddata", ".traineddata">> >>,
      << <<"a">>, <<"c", ".traineddata">> >>,
      << <<".", "d">>, <<"b", ".traineddata">> >>,
      << <<"a">>, <<"s">>, <<"b", ".traineddata">> >> }

Trees == { t \in SUBSET FileUniverse : Cardinality(t) <= MaxFiles }

DataPaths == { << "/", "r" >>, << "/", "r", "/" >> }

Languages == { <<"a">>, <<"a", "_", "b">>, <<"z">> }
DefaultLanguages == { <<"a">>, <<"a", "_", "b">> }
Models == { <<"b">>, <<"c">> }

\* ImagesQueryParams
QueryParams ==
    [ language : {None} \cup { Some(l) : l \in Languages },
      model : {None} \cup { Some(m) : m \in Models } ]

Dirs(tree) == UNION { { SubSeq(p, 1, n) : n \in 1..(Len(p) - 1) } : p \in tree }

\* WalkDir::new(root).min_depth(1).max_depth(2).into_iter().filter_map(Result::ok):
\* the entries of depth 1 and 2; an unreadable root yields an error, which is dropped.
WalkEntries(tree, readable) ==
    IF ~readable THEN {}
    ELSE { [path |-> p, is_file |-> TRUE] : p \in { q \in tree : Len(q) <= 2 } }
         \cup { [path |-> d, is_file |-> FALSE] : d \in { q \in Dirs(tree) : Len(q) <= 2 } }

depth(e) == Len(e.path)
file_name(e) == e.path[Len(e.path)]

\* The entries WalkDir may yield next: it walks depth first, so the children of
\* a directory follow it before the next entry of the root.
NextEntries(rest, dir) ==
    LET children == { e \in rest : depth(e) = 2 /\ Some(e.path[1]) = dir }
    IN  IF children # {} THEN children ELSE { e \in rest : depth(e) = 1 }

NextDir(e, dir) == IF depth(e) = 1 THEN (IF e.is_file THEN None ELSE Some(e.path[1])) ELSE dir

is_non_hidden_file(e) == ~starts_with_dot(file_name(e))
is_traineddata_file(e) == ends_with(file_name(e), TRAINEDDATA)

\* The filters of the for loop.
Accepted(e) == e.is_file /\ is_non_hidden_file(e) /\ is_traineddata_file(e)

-----------------------------------------------------------------------------
(* Catalog builder: get_available_languages_with_models *)

\* HashSet::insert(key) returns true when the key was not yet in the set.
Inserted_Always(visited, key) == TRUE
Inserted(visited, key) == key \notin visited

\* format!("{}_{}", language_dir_name, language_model_name)
DirModelKey(language_dir_name, language_model_name) ==
    language_dir_name \o << "_" >> \o language_model_name

entry_full_path(data_path, e) ==
    IF depth(e) = 1 THEN path_join(data_path, e.path[1])
    ELSE path_join(path_join(data_path, e.path[1]), e.path[2])

entry_relative_path(data_path, full_path) ==
    LET stripped == strip_prefix(full_path, data_path)
        no_slash == IF stripped = None THEN None
                    ELSE Some(unwrap_or(strip_prefix(stripped[1], << "/" >>), stripped[1]))
    IN  unwrap_or(strip_suffix(unwrap_or(no_slash, << >>), TRAINEDDATA), << >>)

TesseractModel(language, model, full_path, relative_path) ==
    [ language |-> language, model |-> model,
      full_path |-> Some(full_path), relative_path |-> Some(relative_path) ]

\* file_name.trim_end_matches(".traineddata")
language_model_name(e) == trim_end_matches(file_name(e), TRAINEDDATA)

\* The key the entry is remembered by in languages_visited.
entry_key(e) ==
    IF depth(e) = 1 THEN language_model_name(e)
    ELSE DirModelKey(e.path[1], language_model_name(e))

\* The record the entry is catalogued as.
entry_record(e, data_path) ==
    LET full_path == entry_full_path(data_path, e)
        relative_path == entry_relative_path(data_path, full_path)
    IN  IF depth(e) = 1
        THEN TesseractModel(language_model_name(e), None, full_path, relative_path)
        ELSE TesseractModel(e.path[1], Some(language_model_name(e)), full_path, relative_path)

\* The body of the for loop for one accepted entry; st holds the two hash sets.
VisitFile(st, e, data_path) ==
    IF depth(e) \in {1, 2}
    THEN IF Inserted(st.languages_visited, entry_key(e))
         THEN [ languages |-> st.languages \cup { entry_record(e, data_path) },
                languages_visited |-> st.languages_visited \cup { entry_key(e) } ]
         ELSE st
    ELSE st

VisitEntry(st, e, data_path) == IF Accepted(e) THEN VisitFile(st, e, data_path) ELSE st

EmptyBuild == [ languages |-> {}, languages_visited |-> {} ]

\* The whole loop over one order of visitation.
RECURSIVE BuildFrom(_, _, _)
BuildFrom(st, order, data_path) ==
    IF order = << >> THEN st
    ELSE BuildFrom(VisitEntry(st, Head(order), data_path), Tail(order), data_path)

\* Every order in which WalkDir may yield the entries.
RECURSIVE WalkOrders(_, _)
WalkOrders(rest, dir) ==
    IF rest = {} THEN { << >> }
    ELSE UNION { { << e >> \o o : o \in WalkOrders(rest \ {e}, NextDir(e, dir)) } :
                 e \in NextEntries(rest, dir) }

-----------------------------------------------------------------------------
(* Resolution: validate_language_params *)

InvalidRequest(message) == [ kind |-> "InvalidRequest", message |-> message ]
Ok(v) == [ ok |-> Some(v), err |-> None ]
Err(e) == [ ok |-> None, err |-> Some(e) ]

\* Iterator::find: the first element of the sequence among those at the
\* positions hits, the positions that satisfy the predicate.
find(seq, hits) ==
    IF hits = {} THEN None
    ELSE Some(seq[CHOOSE i \in hits : \A j \in hits : i <= j])

\* Every order in which a hash set may be iterated.
RECURSIVE IterOrders(_)
IterOrders(set) ==
    IF set = {} THEN { << >> }
    ELSE UNION { { << x >> \o o : o \in IterOrders(set \ {x}) } : x \in set }

model_without_language_Never(params) == FALSE
model_without_language(params) == params.model # None /\ params.language = None

effective_language_Default(params, default_language) == default_language
effective_language(params, default_language) == unwrap_or(params.language, default_language)

matches_language_Any(model, language) == TRUE
matches_language(model, language) == model.language = language

matches_model_Negated(m, requested_model) == m.model # Some(requested_model)
matches_model_OrUnqualified(m, requested_model) ==
    m.model = Some(requested_model) \/ m.model = None
matches_model(m, requested_model) == m.model = Some(requested_model)

is_single_Never(matching_language_models) == FALSE
is_single(matching_language_models) == Len(matching_language_models) = 1

has_no_model_Any(m) == TRUE
has_no_model(m) == m.model = None

ModelWithoutLanguageMessage == << "Language must be specified when model is provided" >>
LanguageNotAvailableMessage(language) ==
    << "Language '" >> \o language \o << "' is not available" >>
ModelNotFoundMessage_Swapped(requested_model, language) ==
    << "Model '" >> \o language \o << "' not found for language '" >> \o requested_model \o << "'" >>
ModelNotFoundMessage(requested_model, language) ==
    << "Model '" >> \o requested_model \o << "' not found for language '" >> \o language \o << "'" >>
MultipleModelsMessage(language) ==
    << "Multiple models available for language '" >> \o language
        \o << "', please specify a model" >>

\* available_languages is the hash set in the order its iterator yields it.
validate_language_params(params, available_languages, default_language) ==
    IF model_without_language(params)
    THEN Err(InvalidRequest(ModelWithoutLanguageMessage))
    ELSE
    LET language == effective_language(params, default_language)
        MatchesLanguage(m) == matches_language(m, language)
        matching_language_models == SelectSeq(available_languages, MatchesLanguage)
    IN  IF matching_language_models = << >>
        THEN Err(InvalidRequest(LanguageNotAvailableMessage(language)))
        ELSE IF params.model # None
        THEN LET requested_model == params.model[1]
                 found == find(matching_language_models,
                               { i \in DOMAIN matching_language_models :
                                   matches_model(matching_language_models[i], requested_model) })
             IN  IF found # None THEN Ok(found[1])
                 ELSE Err(InvalidRequest(ModelNotFoundMessage(requested_model, language)))
        ELSE IF is_single(matching_language_models)
        THEN Ok(matching_language_models[1])
        ELSE LET found == find(matching_language_models,
                               { i \in DOMAIN matching_language_models :
                                   has_no_model(matching_language_models[i]) })
             IN  IF found # None THEN Ok(found[1])
                 ELSE Err(InvalidRequest(MultipleModelsMessage(language)))

-----------------------------------------------------------------------------
(* Error taxonomy: ErrorType and its IntoResponse *)

\* InvalidJsonBody carries the JsonRejection, InternalError the anyhow::Error;
\* message is the rejection's variant, respectively the error's to_string().
InvalidJsonBody(rejection) == [ kind |-> "InvalidJsonBody", message |-> rejection ]
InternalError(message) == [ kind |-> "InternalError", message |-> message ]

JsonRejections ==
    { << "JsonDataError" >>, << "JsonSyntaxError" >>, << "MissingJsonContentType" >>,
      << "BytesRejection" >>, << "Other" >> }

json_rejection_message(rejection) ==
    CASE rejection = << "JsonDataError" >> -> << "Invalid JSON data" >>
      [] rejection = << "JsonSyntaxError" >> -> << "Invalid JSON syntax" >>
      [] rejection = << "MissingJsonContentType" >> ->
             << "Missing 'Content-Type: application/json' header" >>
      [] rejection = << "BytesRejection" >> -> << "Failed to buffer request body" >>
      [] OTHER -> << "Unknown error" >>

BAD_REQUEST == 400
INTERNAL_SERVER_ERROR == 500
OK == 200

ErrorResponse(status, message) == [ status |-> status, body |-> "message", content |-> message ]
ImagesResponse(text) == [ status |-> OK, body |-> "text", content |-> text ]

into_response_Display(error) ==
    IF error.kind = "InvalidRequest"
    THEN ErrorResponse(BAD_REQUEST, << "Invalid request: " >> \o error.message)
    ELSE ErrorResponse(INTERNAL_SERVER_ERROR, error.message)
into_response(error) ==
    CASE error.kind = "InvalidJsonBody" ->
             ErrorResponse(BAD_REQUEST, json_rejection_message(error.message))
      [] error.kind = "InvalidRequest" -> ErrorResponse(BAD_REQUEST, error.message)
      [] error.kind = "InternalError" -> ErrorResponse(INTERNAL_SERVER_ERROR, error.message)

-----------------------------------------------------------------------------
(* validate_file_type *)

ALLOWED_FILE_TYPES_NoGif ==
    << << "image/png" >>, << "image/jpg" >>, << "image/jpeg" >>, << "image/webp" >> >>
ALLOWED_FILE_TYPES ==
    << << "image/png" >>, << "image/jpg" >>, << "image/jpeg" >>, << "image/webp" >>,
       << "image/gif" >> >>

\* [&str]::join(sep)
RECURSIVE join(_, _)
join(strs, sep) ==
    IF strs = << >> THEN << >>
    ELSE IF Len(strs) = 1 THEN strs[1]
    ELSE strs[1] \o sep \o join(Tail(strs), sep)

contains(array, x) == \E i \in DOMAIN array : array[i] = x

InvalidFileTypeMessage(file_type) ==
    << "Invalid file type: " >> \o file_type \o << ". File types allowed: " >>
        \o join(ALLOWED_FILE_TYPES, << "," >>)

validate_file_type(file_type) ==
    IF ~contains(ALLOWED_FILE_TYPES, file_type)
    THEN Err(InvalidRequest(InvalidFileTypeMessage(file_type)))
    ELSE Ok(<< >>)

\* Content types a multipart part may declare.
ContentTypes ==
    { << "image/png" >>, << "image/jpg" >>, << "image/jpeg" >>, << "image/webp" >>,
      << "image/gif" >>, << "text/plain" >>, << "image/bmp" >>, << >> }

-----------------------------------------------------------------------------
(* u32 and i32: a u32 is two 16-bit limbs, value hi * 2^16 + lo. *)

BYTES_PER_PIXEL == 3

U32(hi, lo) == [ hi |-> hi, lo |-> lo ]

\* u32 * small constant: the product modulo 2^32, and whether it overflowed.
mul_u32(x, k) ==
    LET low == x.lo * k
        high == x.hi * k + (low \div 65536)
    IN  [ overflow |-> high >= 65536, value |-> U32(high % 65536, low % 65536) ]

\* u32 -> i32 TryInto: Some(value) when it is at most i32::MAX.
try_into_i32(x) == IF x.hi < 32768 THEN Some(x) ELSE None

TryFromIntError == << "out of range integral type conversion attempted" >>

\* (width, height) of decoded images: 1x1; a width whose scanline exceeds
\* i32::MAX; a width whose scanline overflows u32 and wraps to 2; a width above
\* i32::MAX whose scanline wraps into range; a height above i32::MAX.
Dimensions ==
    { << U32(0, 1), U32(0, 1) >>,
      << U32(10922, 43691), U32(0, 1) >>,
      << U32(21845, 21846), U32(0, 1) >>,
      << U32(45776, 24064), U32(0, 1) >>,
      << U32(0, 1), U32(32768, 0) >> }

-----------------------------------------------------------------------------
(* The languages handler *)

\* The code of a token's characters.
TokenChars(t) ==
    CASE t = ".traineddata" -> << 46, 116, 114, 97, 105, 110, 101, 100, 100, 97, 116, 97 >>
      [] t = ".txt" -> << 46, 116, 120, 116 >>
      [] t = "." -> << 46 >>
      [] t = "/" -> << 47 >>
      [] t = "_" -> << 95 >>
      [] t = "a" -> << 97 >>
      [] t = "b" -> << 98 >>
      [] t = "c" -> << 99 >>
      [] t = "d" -> << 100 >>
      [] t = "h" -> << 104 >>
      [] t = "r" -> << 114 >>
      [] t = "s" -> << 115 >>
      [] t = "z" -> << 122 >>

RECURSIVE Chars(_)
Chars(s) == IF s = << >> THEN << >> ELSE TokenChars(s[1]) \o Chars(Tail(s))

\* Ord for sequences of characters: lexicographic.
RECURSIVE cmp_chars(_, _)
cmp_chars(x, y) ==
    IF x = << >> THEN (IF y = << >> THEN "Equal" ELSE "Less")
    ELSE IF y = << >> THEN "Greater"
    ELSE IF x[1] < y[1] THEN "Less"
    ELSE IF x[1] > y[1] THEN "Greater"
    ELSE cmp_chars(Tail(x), Tail(y))

\* String::cmp
cmp_str(x, y) == cmp_chars(Chars(x), Chars(y))

\* Option<String>::cmp: None is less than any Some.
cmp_option(x, y) ==
    IF x = None THEN (IF y = None THEN "Equal" ELSE "Less")
    ELSE IF y = None THEN "Greater"
    ELSE cmp_str(x[1], y[1])

\* Ordering::then
then(first, second) == IF first = "Equal" THEN second ELSE first

\* The comparator of sort_by.
compare_models_LanguageOnly(a, b) == cmp_str(a.language, b.language)
compare_models(a, b) == then(cmp_str(a.language, b.language), cmp_option(a.model, b.model))

\* Vec::sort_by is stable: x goes behind the elements that are not greater.
RECURSIVE insert_sorted(_, _)
insert_sorted(sorted, x) ==
    IF sorted = << >> THEN << x >>
    ELSE IF compare_models(x, sorted[1]) = "Less" THEN << x >> \o sorted
    ELSE << sorted[1] >> \o insert_sorted(Tail(sorted), x)

RECURSIVE sort_by(_, _)
sort_by(done, todo) ==
    IF todo = << >> THEN done ELSE sort_by(insert_sorted(done, todo[1]), Tail(todo))

\* languages(): the state's set, in the order its iterator yields it, sorted.
\* The set is moved out of the handler's state.
languages_handler(available_languages) ==
    [ response |-> [ status |-> OK, body |-> "languages",
                     content |-> sort_by(<< >>, available_languages) ],
      state_left |-> {} ]

\* State(state) hands the handler a clone of AppState: what the handler does to
\* its state leaves the router's state as it was.
app_state_after_Shared(shared, handler_state) == handler_state
app_state_after(shared, handler_state) == shared

-----------------------------------------------------------------------------
(* The images handler, step by step.  A request is a record: how far the   *)
(* handler has come, its locals, the calls it has made on the multipart    *)
(* body, the decoder and the engine, and its outcome and response.         *)

IdleRequest ==
    [ stage |-> "idle", tesseract_model |-> None, field |-> None, content_type |-> None,
      width |-> None, height |-> None, bytes_per_line |-> None,
      steps |-> << >>, failed_call |-> None, outcome |-> None, response |-> None ]

\* Messages of the failures of the collaborators.
MultipartErrors == { << "multipart error" >> }
DecodeErrors == { << "decode error" >> }
TessErrors == { << "tess error" >> }
Texts == { << "text" >> }

\* return Err(error), answered through IntoResponse
fail(req, error) ==
    [ req EXCEPT !.stage = "done", !.outcome = Some(Err(error)),
                 !.response = Some(into_response(error)) ]

\* Ok(Json(ImagesResponse { text }))
succeed(req, text) ==
    [ req EXCEPT !.stage = "done", !.outcome = Some(Ok(text)),
                 !.response = Some(ImagesResponse(text)) ]

called(req, step) == [ req EXCEPT !.steps = Append(@, step) ]

\* The call made last returned an error, which the handler maps to error.
call_failed(req, error) ==
    fail([ req EXCEPT !.failed_call = Some(req.steps[Len(req.steps)]) ], error)

\* validate_language_params(..)?
resolve_step(req, resolution) ==
    IF resolution.err # None THEN fail(req, resolution.err[1])
    ELSE [ req EXCEPT !.stage = "resolved", !.tesseract_model = resolution.ok ]

\* multipart.next_field().await: Err(message), Ok(None) or Ok(Some(field))
FieldResults ==
    { Err(m) : m \in MultipartErrors } \cup { Ok(None) }
        \cup { Ok(Some([ content_type |-> ct ])) :
                 ct \in {None} \cup { Some(t) : t \in ContentTypes } }

NoFileMessage_ContentType == << "No content type provided for given file" >>
NoFileMessage == << "No image file provided" >>

next_field_step(req, field_result) ==
    LET r == called(req, "next_field")
    IN  IF field_result.err # None THEN call_failed(r, InvalidRequest(field_result.err[1]))
        ELSE IF field_result.ok[1] = None
        THEN fail(r, InvalidRequest(NoFileMessage))
        ELSE [ r EXCEPT !.stage = "field", !.field = field_result.ok[1],
                        !.content_type = field_result.ok[1][1].content_type ]

check_type_step_Continue(req) == [ req EXCEPT !.stage = "typed" ]
check_type_step(req) ==
    IF req.content_type # None
    THEN LET checked == validate_file_type(req.content_type[1])
         IN  IF checked.err # None THEN fail(req, checked.err[1])
             ELSE [ req EXCEPT !.stage = "typed" ]
    ELSE fail(req, InvalidRequest(<< "No content type provided for given file" >>))

\* field.bytes().await
BytesResults == { Err(m) : m \in MultipartErrors } \cup { Ok(<< "bytes" >>) }

bytes_step(req, bytes_result) ==
    LET r == called(req, "bytes")
    IN  IF bytes_result.err # None THEN call_failed(r, InvalidRequest(bytes_result.err[1]))
        ELSE [ r EXCEPT !.stage = "read" ]

\* ImageReader .. with_guessed_format()?.decode()?, to_rgb8(), dimensions()
DecodeResults == { Err(m) : m \in DecodeErrors } \cup { Ok(d) : d \in Dimensions }

decode_step(req, decode_result) ==
    LET r == called(req, "decode")
    IN  IF decode_result.err # None THEN call_failed(r, InvalidRequest(decode_result.err[1]))
        ELSE [ r EXCEPT !.stage = "decoded", !.width = Some(decode_result.ok[1][1]),
                        !.height = Some(decode_result.ok[1][2]) ]

\* (width * BYTES_PER_PIXEL).try_into(): the product of two u32 panics when it
\* overflows in a build with overflow checks and wraps in a build without.
bytes_per_line_step(req, overflow_checks) ==
    LET product == mul_u32(req.width[1], BYTES_PER_PIXEL)
        converted == try_into_i32(product.value)
    IN  IF product.overflow /\ overflow_checks THEN [ req EXCEPT !.stage = "panicked" ]
        ELSE IF converted = None
        THEN fail(req, InvalidRequest(<< "Image dimensions are too large: " >>
                                          \o TryFromIntError))
        ELSE [ req EXCEPT !.stage = "sized", !.bytes_per_line = converted ]

\* What a call on the engine returns.
InitResults == { Err(m) : m \in TessErrors } \cup { Ok(<< >>) }
TextResults == { Err(m) : m \in TessErrors } \cup { Ok(t) : t \in Texts }

init_error(tess_error) ==
    InternalError(<< "Something went wrong while performing OCR: " >> \o tess_error)
set_image_error(tess_error) ==
    InternalError(<< "Something went wrong while processing the image: " >> \o tess_error)
get_text_error_Internal(tess_error) ==
    InternalError(<< "Something went wrong while extracting the text: " >> \o tess_error)
get_text_error(tess_error) ==
    InvalidRequest(<< "Something went wrong while extracting the text: " >> \o tess_error)

\* tesseract_api.init(resource_path, language_model_path)
init_step(req, init_result) ==
    LET r == called(req, "init")
    IN  IF init_result.err # None THEN call_failed(r, init_error(init_result.err[1]))
        ELSE [ r EXCEPT !.stage = "inited" ]

\* tesseract_api.set_image(..): the arguments are converted, then the call is made.
set_image_step(req, set_image_result) ==
    IF try_into_i32(req.width[1]) = None
    THEN fail(req, InvalidRequest(<< "Image width is too large: " >> \o TryFromIntError))
    ELSE IF try_into_i32(req.height[1]) = None
    THEN fail(req, InvalidRequest(<< "Image height is too large: " >> \o TryFromIntError))
    ELSE LET r == called(req, "set_image")
         IN  IF set_image_result.err # None
             THEN call_failed(r, set_image_error(set_image_result.err[1]))
             ELSE [ r EXCEPT !.stage = "imaged" ]

\* tesseract_api.get_utf8_text()
get_text_step(req, text_result) ==
    LET r == called(req, "get_utf8_text")
    IN  IF text_result.err # None THEN call_failed(r, get_text_error(text_result.err[1]))
        ELSE succeed(r, text_result.ok[1])

-----------------------------------------------------------------------------
(* Requests handled at the same time.  Each has its request record, the    *)
(* engine handle it made, and the results its calls have returned so far.  *)
(* An engine is what init and set_image have put into it; the text it      *)
(* extracts is a function of that.                                         *)

RequestIds == { "r1", "r2" }

NoEngine == [ language |-> None, image |-> None ]

\* TesseractAPI::new(): a handle of the request's own.
TesseractAPI_new_Pooled(id) == "r1"
TesseractAPI_new(id) == id

\* init(resource_path, language_model_path), set_image(raw_image_data, ..)
engine_init(engine, language_model_path) ==
    [ engine EXCEPT !.language = Some(language_model_path) ]
engine_set_image(engine, raw_image_data) == [ engine EXCEPT !.image = Some(raw_image_data) ]

\* get_utf8_text(): the text of the handle's image in the handle's language.
engine_text(engine) ==
    << "text of " >> \o unwrap_or(engine.image, << >>) \o << " in " >>
        \o unwrap_or(engine.language, << >>)

\* The bytes a request uploads: its own.
upload(id) == << id >>

\* tesseract_model.relative_path.unwrap_or_default()
language_model_path(req) == unwrap_or(req.tesseract_model[1].relative_path, << >>)

NoInputs ==
    [ query |-> None, iter |-> None, field_result |-> None, bytes_result |-> None,
      decode_result |-> None, overflow_checks |-> None, init_result |-> None,
      set_image_result |-> None, text_error |-> None ]

NewFlight == [ request |-> IdleRequest, handle |-> None, inputs |-> NoInputs ]

\* The result of get_utf8_text on engine: the failure the call met, or its text.
text_result_of(text_error, engine) ==
    IF text_error # None THEN Err(text_error[1]) ELSE Ok(engine_text(engine))

\* images() run alone: the handler's steps in their order, on the results the
\* request's calls returned, against the catalog in the order iter and an
\* engine of its own.
run_alone(id, inputs, default_language) ==
    LET r1 == resolve_step(IdleRequest,
                  validate_language_params(inputs.query[1], inputs.iter[1], default_language))
        r2 == IF r1.stage = "resolved" THEN next_field_step(r1, inputs.field_result[1]) ELSE r1
        r3 == IF r2.stage = "field" THEN check_type_step(r2) ELSE r2
        r4 == IF r3.stage = "typed" THEN bytes_step(r3, inputs.bytes_result[1]) ELSE r3
        r5 == IF r4.stage = "read" THEN decode_step(r4, inputs.decode_result[1]) ELSE r4
        r6 == IF r5.stage = "decoded"
              THEN bytes_per_line_step(r5, inputs.overflow_checks[1]) ELSE r5
        r7 == IF r6.stage = "sized" THEN init_step(r6, inputs.init_result[1]) ELSE r6
        r8 == IF r7.stage = "inited" THEN set_image_step(r7, inputs.set_image_result[1]) ELSE r7
        own == engine_set_image(engine_init(NoEngine, language_model_path(r8)), upload(id))
    IN  IF r8.stage = "imaged"
        THEN get_text_step(r8, text_result_of(inputs.text_error, own))
        ELSE r8

-----------------------------------------------------------------------------
(* The service: router() builds the catalog, then requests are resolved.   *)

VARIABLES
    tree,                 \* the files below the tessdata root
    root_readable,        \* whether the root directory can be read
    data_path,            \* app_config.tesseract.data_path
    default_language,     \* app_config.service.default_language
    pc,                   \* "build" while router() builds the catalog, then "serve"
    walk_rest,            \* entries WalkDir has not yet yielded
    walk_dir,             \* the directory WalkDir is inside, if any
    languages,            \* the builder's local set of records
    languages_visited,    \* the builder's local set of keys
    available_tesseract_languages,   \* AppState
    params,               \* the query of the last images request, if any
    result,               \* what validate_language_params returned for it
    request,              \* the images request being handled
    languages_response,   \* the last response of the languages handler, if any
    inflight,             \* the images requests handled at the same time, by id
    engines               \* the engine behind each handle

vars == << tree, root_readable, data_path, default_language, pc, walk_rest, walk_dir,
           languages, languages_visited, available_tesseract_languages, params, result,
           request, languages_response, inflight, engines >>

concurrent == << inflight, engines >>

config == << tree, root_readable, data_path, default_language >>

Init ==
    /\ root_readable \in BOOLEAN
    /\ tree \in (IF root_readable THEN Trees ELSE { {} })
    /\ data_path \in DataPaths
    /\ default_language \in DefaultLanguages
    /\ pc = "build"
    /\ walk_rest = WalkEntries(tree, root_readable)
    /\ walk_dir = None
    /\ languages = {}
    /\ languages_visited = {}
    /\ available_tesseract_languages = {}
    /\ params = None
    /\ result = None
    /\ request = IdleRequest
    /\ languages_response = None
    /\ inflight = [ id \in RequestIds |-> NewFlight ]
    /\ engines = [ id \in RequestIds |-> NoEngine ]

\* One iteration of the for loop of get_available_languages_with_models.
Visit ==
    /\ pc = "build"
    /\ \E e \in NextEntries(walk_rest, walk_dir) :
        LET st == VisitEntry([ languages |-> languages,
                               languages_visited |-> languages_visited ], e, data_path)
        IN  /\ languages' = st.languages
            /\ languages_visited' = st.languages_visited
            /\ walk_rest' = walk_rest \ {e}
            /\ walk_dir' = NextDir(e, walk_dir)
    /\ UNCHANGED << config, pc, available_tesseract_languages, params, result,
                    request, languages_response, concurrent >>

\* The loop ends: Ok(languages) is returned and router() stores it in AppState.
BuildDone ==
    /\ pc = "build"
    /\ walk_rest = {}
    /\ pc' = "serve"
    /\ available_tesseract_languages' = languages
    /\ UNCHANGED << config, walk_rest, walk_dir, languages, languages_visited, params, result,
                    request, languages_response, concurrent >>

\* images(): the query parameters are resolved against the catalog.
Resolve ==
    /\ pc = "serve"
    /\ \E q \in QueryParams, iter \in IterOrders(available_tesseract_languages) :
        /\ params' = Some(q)
        /\ result' = Some(validate_language_params(q, iter, default_language))
    /\ UNCHANGED << config, pc, walk_rest, walk_dir, languages, languages_visited,
                    available_tesseract_languages, request, languages_response, concurrent >>

\* axum::serve starts once router() has returned: handlers run from then on.
Serving_Early == TRUE
Serving == pc = "serve"

builder == << walk_rest, walk_dir, languages, languages_visited >>

\* languages(): the whole handler.
LanguagesRequest ==
    /\ Serving
    /\ \E iter \in IterOrders(available_tesseract_languages) :
        LET handled == languages_handler(iter)
        IN  /\ languages_response' = Some(handled.response)
            /\ available_tesseract_languages' =
                   app_state_after(available_tesseract_languages, handled.state_left)
    /\ UNCHANGED << config, pc, builder, params, result, request, concurrent >>

Next == Visit \/ BuildDone \/ Resolve \/ LanguagesRequest

Spec == Init /\ [][Next]_vars

-----------------------------------------------------------------------------
(* The service with the images handler taken step by step, over the trees  *)
(* of at most MaxServiceFiles files.                                       *)

MaxServiceFiles == 1

ServiceInit == Init /\ Cardinality(tree) <= MaxServiceFiles

handler_frame ==
    << config, pc, builder, available_tesseract_languages, languages_response, concurrent >>

\* images() is entered and resolves the query parameters.
ImagesResolve ==
    /\ Serving
    /\ request.stage \in { "idle", "done", "panicked" }
    /\ \E q \in QueryParams, iter \in IterOrders(available_tesseract_languages) :
        LET resolution == validate_language_params(q, iter, default_language)
        IN  /\ params' = Some(q)
            /\ result' = Some(resolution)
            /\ request' = resolve_step(IdleRequest, resolution)
    /\ UNCHANGED handler_frame

ImagesNextField ==
    /\ request.stage = "resolved"
    /\ \E field_result \in FieldResults : request' = next_field_step(request, field_result)
    /\ UNCHANGED << handler_frame, params, result >>

ImagesCheckType ==
    /\ request.stage = "field"
    /\ request' = check_type_step(request)
    /\ UNCHANGED << handler_frame, params, result >>

ImagesBytes ==
    /\ request.stage = "typed"
    /\ \E bytes_result \in BytesResults : request' = bytes_step(request, bytes_result)
    /\ UNCHANGED << handler_frame, params, result >>

ImagesDecode ==
    /\ request.stage = "read"
    /\ \E decode_result \in DecodeResults : request' = decode_step(request, decode_result)
    /\ UNCHANGED << handler_frame, params, result >>

ImagesBytesPerLine ==
    /\ request.stage = "decoded"
    /\ \E overflow_checks \in BOOLEAN :
        request' = bytes_per_line_step(request, overflow_checks)
    /\ UNCHANGED << handler_frame, params, result >>

ImagesInit ==
    /\ request.stage = "sized"
    /\ \E init_result \in InitResults : request' = init_step(request, init_result)
    /\ UNCHANGED << handler_frame, params, result >>

ImagesSetImage ==
    /\ request.stage = "inited"
    /\ \E set_image_result \in InitResults :
        request' = set_image_step(request, set_image_result)
    /\ UNCHANGED << handler_frame, params, result >>

ImagesGetText ==
    /\ request.stage = "imaged"
    /\ \E text_result \in TextResults : request' = get_text_step(request, text_result)
    /\ UNCHANGED << handler_frame, params, result >>

ServiceNext ==
    \/ Visit \/ BuildDone \/ LanguagesRequest
    \/ ImagesResolve \/ ImagesNextField \/ ImagesCheckType \/ ImagesBytes \/ ImagesDecode
    \/ ImagesBytesPerLine \/ ImagesInit \/ ImagesSetImage \/ ImagesGetText

ServiceSpec == ServiceInit /\ [][ServiceNext]_vars

-----------------------------------------------------------------------------
(* The service handling the requests of RequestIds at the same time: the   *)
(* steps of their handlers interleave in every order.                      *)

\* The trees, queries, parts and images of the requests handled together.
ConcurrentTrees ==
    { { << <<"a", ".traineddata">> >> },
      { << <<"a", ".traineddata">> >>, << <<"a">>, <<"b", ".traineddata">> >> } }
ConcurrentQueryParams ==
    { q \in QueryParams : q.language \in { None, Some(<<"a">>) } /\ q.model \in { None, Some(<<"b">>) } }
ConcurrentFieldResults ==
    { Ok(None), Ok(Some([ content_type |-> Some(<< "image/png" >>) ])),
      Ok(Some([ content_type |-> Some(<< "text/plain" >>) ])) }
ConcurrentDecodeResults ==
    { Ok(<< U32(0, 1), U32(0, 1) >>), Ok(<< U32(0, 1), U32(32768, 0) >>) }

ConcurrentInit ==
    /\ Init
    /\ root_readable /\ tree \in ConcurrentTrees
    /\ data_path = << "/", "r" >> /\ default_language = << "a" >>

concurrent_frame ==
    << config, pc, builder, available_tesseract_languages, languages_response,
       params, result, request >>

\* The request id goes on as req, having been given the result named input.
Advance(id, req, inputs) ==
    inflight' = [ inflight EXCEPT ![id] = [ @ EXCEPT !.request = req, !.inputs = inputs ] ]

ConcurrentResolve(id) ==
    /\ Serving
    /\ inflight[id].request.stage = "idle"
    /\ \E q \in ConcurrentQueryParams, iter \in IterOrders(available_tesseract_languages) :
        Advance(id, resolve_step(IdleRequest,
                                 validate_language_params(q, iter, default_language)),
                [ inflight[id].inputs EXCEPT !.query = Some(q), !.iter = Some(iter) ])
    /\ UNCHANGED << concurrent_frame, engines >>

ConcurrentNextField(id) ==
    /\ inflight[id].request.stage = "resolved"
    /\ \E field_result \in ConcurrentFieldResults :
        Advance(id, next_field_step(inflight[id].request, field_result),
                [ inflight[id].inputs EXCEPT !.field_result = Some(field_result) ])
    /\ UNCHANGED << concurrent_frame, engines >>

ConcurrentCheckType(id) ==
    /\ inflight[id].request.stage = "field"
    /\ Advance(id, check_type_step(inflight[id].request), inflight[id].inputs)
    /\ UNCHANGED << concurrent_frame, engines >>

\* field.bytes(), then TesseractAPI::new()
ConcurrentBytes(id) ==
    /\ inflight[id].request.stage = "typed"
    /\ \E bytes_result \in BytesResults :
        LET req == bytes_step(inflight[id].request, bytes_result)
        IN  inflight' = [ inflight EXCEPT ![id] =
                [ request |-> req,
                  handle |-> IF req.stage = "read" THEN Some(TesseractAPI_new(id)) ELSE None,
                  inputs |-> [ @.inputs EXCEPT !.bytes_result = Some(bytes_result) ] ] ]
    /\ UNCHANGED << concurrent_frame, engines >>

ConcurrentDecode(id) ==
    /\ inflight[id].request.stage = "read"
    /\ \E decode_result \in ConcurrentDecodeResults :
        Advance(id, decode_step(inflight[id].request, decode_result),
                [ inflight[id].inputs EXCEPT !.decode_result = Some(decode_result) ])
    /\ UNCHANGED << concurrent_frame, engines >>

ConcurrentBytesPerLine(id) ==
    /\ inflight[id].request.stage = "decoded"
    /\ \E overflow_checks \in BOOLEAN :
        Advance(id, bytes_per_line_step(inflight[id].request, overflow_checks),
                [ inflight[id].inputs EXCEPT !.overflow_checks = Some(overflow_checks) ])
    /\ UNCHANGED << concurrent_frame, engines >>

ConcurrentEngineInit(id) ==
    /\ inflight[id].request.stage = "sized"
    /\ \E init_result \in InitResults :
        LET req == init_step(inflight[id].request, init_result)
        IN  /\ Advance(id, req, [ inflight[id].inputs EXCEPT !.init_result = Some(init_result) ])
            /\ engines' =
                 IF req.stage = "inited"
                 THEN [ engines EXCEPT ![inflight[id].handle[1]] =
                            engine_init(@, language_model_path(req)) ]
                 ELSE engines
    /\ UNCHANGED concurrent_frame

ConcurrentSetImage(id) ==
    /\ inflight[id].request.stage = "inited"
    /\ \E set_image_result \in InitResults :
        LET req == set_image_step(inflight[id].request, set_image_result)
        IN  /\ Advance(id, req,
                       [ inflight[id].inputs EXCEPT !.set_image_result = Some(set_image_result) ])
            /\ engines' =
                 IF req.stage = "imaged"
                 THEN [ engines EXCEPT ![inflight[id].handle[1]] =
                            engine_set_image(@, upload(id)) ]
                 ELSE engines
    /\ UNCHANGED concurrent_frame

ConcurrentGetText(id) ==
    /\ inflight[id].request.stage = "imaged"
    /\ \E text_error \in {None} \cup { Some(m) : m \in TessErrors } :
        Advance(id, get_text_step(inflight[id].request,
                                  text_result_of(text_error, engines[inflight[id].handle[1]])),
                [ inflight[id].inputs EXCEPT !.text_error = text_error ])
    /\ UNCHANGED << concurrent_frame, engines >>

\* The next step of request id, whichever it is.
ConcurrentStep(id) ==
    \/ ConcurrentResolve(id) \/ ConcurrentNextField(id) \/ ConcurrentCheckType(id)
    \/ ConcurrentBytes(id) \/ ConcurrentDecode(id) \/ ConcurrentBytesPerLine(id)
    \/ ConcurrentEngineInit(id) \/ ConcurrentSetImage(id) \/ ConcurrentGetText(id)

ConcurrentNext ==
    \/ Visit \/ BuildDone \/ LanguagesRequest
    \/ \E id \in RequestIds : ConcurrentStep(id)

ConcurrentSpec == ConcurrentInit /\ [][ConcurrentNext]_vars

-----------------------------------------------------------------------------
(* Properties of the resolution *)

Resolved == pc = "serve" /\ params # None
Query == params[1]
Outcome == result[1]

\* The language the query is resolved for, as the specification states it.
EffectiveLanguage == IF Query.language = None THEN default_language ELSE Query.language[1]
Candidates == { r \in available_tesseract_languages : r.language = EffectiveLanguage }
Unqualified == { r \in Candidates : r.model = None }
Proceeds == ~(Query.model # None /\ Query.language = None)

\* C1: a query without a model whose effective language has two or more
\* records is answered with the record without a model when there is one, and
\* with the error "Multiple models available for language '<language>', please
\* specify a model" otherwise; never with a record that names a model.
C1_UnqualifiedDefaultOrAmbiguity ==
    (Resolved /\ Query.model = None /\ Cardinality(Candidates) >= 2) =>
        IF Unqualified # {}
        THEN Outcome.ok # None /\ Outcome.ok[1] \in Unqualified
        ELSE Outcome = Err(InvalidRequest(
                 << "Multiple models available for language '" >> \o EffectiveLanguage
                     \o << "', please specify a model" >>))

C1_Witness ==
    /\ Resolved /\ Query.model = None /\ Cardinality(Candidates) >= 2
    /\ Unqualified # {} /\ Outcome.ok # None /\ Outcome.ok[1].model = None

\* C2: a query without a model whose effective language has exactly one
\* record is answered with that record, whether or not it names a model.
C2_SingleCandidate ==
    (Resolved /\ Query.model = None /\ Cardinality(Candidates) = 1) =>
        \A r \in Candidates : Outcome = Ok(r)

C2_Witness ==
    /\ Resolved /\ Query.model = None /\ Cardinality(Candidates) = 1
    /\ \E r \in Candidates : r.model # None /\ Outcome = Ok(r)

\* C3: a query with language L and model M is answered with the record
\* (L, Some(M)) when the catalog holds it, whatever else it holds for L.
C3_ExactMatch ==
    (Resolved /\ Query.language # None /\ Query.model # None) =>
        \A r \in available_tesseract_languages :
            (r.language = Query.language[1] /\ r.model = Query.model) => Outcome = Ok(r)

C3_Witness ==
    /\ Resolved /\ Query.language # None /\ Query.model # None
    /\ Unqualified # {}
    /\ \E r \in Candidates : r.model = Query.model /\ Outcome = Ok(r)

\* C4: a query with language L and model M fails with "Model 'M' not found
\* for language 'L'" when the catalog holds records for L but none with
\* model M, also when L has a single record.
C4_ModelNotFound ==
    (Resolved /\ Query.language # None /\ Query.model # None
       /\ Candidates # {} /\ \A r \in Candidates : r.model # Query.model) =>
        Outcome = Err(InvalidRequest(
            << "Model '" >> \o Query.model[1] \o << "' not found for language '" >>
                \o Query.language[1] \o << "'" >>))

C4_Witness ==
    /\ Resolved /\ Query.language # None /\ Query.model # None
    /\ Cardinality(Candidates) = 1 /\ Unqualified = Candidates
    /\ Outcome.err # None

\* C5: a query with a model and without a language fails with "Language must
\* be specified when model is provided", whatever the catalog holds.
C5_ModelWithoutLanguage ==
    (Resolved /\ Query.model # None /\ Query.language = None) =>
        Outcome = Err(InvalidRequest(
            << "Language must be specified when model is provided" >>))

C5_Witness ==
    /\ Resolved /\ Query.model # None /\ Query.language = None
    /\ \E r \in available_tesseract_languages :
        r.language = default_language /\ r.model = Query.model
    /\ Outcome.err # None

C7_IterationOrderIndependent ==
    Resolved =>
        \A iter \in IterOrders(available_tesseract_languages) :
            validate_language_params(Query, iter, default_language) = Outcome

C7_Witness ==
    /\ Resolved /\ Query.model = None /\ Cardinality(Candidates) >= 2
    /\ Unqualified = {} /\ Cardinality(available_tesseract_languages) >= 3

-----------------------------------------------------------------------------
(* Properties of the catalog builder *)

AcceptedEntries == { e \in WalkEntries(tree, root_readable) : Accepted(e) }

\* Two accepted files are catalogued under the same (language, model).
SamePair(e, f) ==
    /\ entry_record(e, data_path).language = entry_record(f, data_path).language
    /\ entry_record(e, data_path).model = entry_record(f, data_path).model

UniquePairs(records) ==
    \A r1, r2 \in records : (r1.language = r2.language /\ r1.model = r2.model) => r1 = r2

\* C8: the catalog never holds two distinct records with the same
\* (language, model), while it is built and once it is served.
C8_UniqueLanguageModel ==
    UniquePairs(languages) /\ UniquePairs(available_tesseract_languages)

C8_Witness ==
    /\ pc = "serve"
    /\ \E e, f \in AcceptedEntries : e # f /\ SamePair(e, f)

\* C9: every (language, model) of an accepted file of depth 1 or 2 is in the
\* catalog: a file is skipped only for an earlier file of the same pair.
C9_EveryPairCatalogued ==
    pc = "serve" =>
        \A e \in AcceptedEntries :
            \E r \in available_tesseract_languages :
                /\ r.language = entry_record(e, data_path).language
                /\ r.model = entry_record(e, data_path).model

\* C10: when no two accepted files map to the same (language, model), every
\* order of visitation builds the same catalog.
C10_OrderIndependentCatalog ==
    (pc = "serve" /\ \A e, f \in AcceptedEntries : SamePair(e, f) => e = f) =>
        \A order \in WalkOrders(WalkEntries(tree, root_readable), None) :
            BuildFrom(EmptyBuild, order, data_path).languages = available_tesseract_languages


\* The file name with its extension removed once, as "<name>.ext" reads.
NameOf(file) == SubSeq(file, 1, Len(file) - 1)

\* C11: every record of the catalog comes from a regular file of depth 1 or 2
\* whose name does not start with '.' and ends with the extension; the file
\* root/<name>.ext gives (name, None), the file root/<dir>/<name>.ext gives
\* (dir, name).
C11_RecordsComeFromModelFiles ==
    pc = "serve" =>
        \A r \in available_tesseract_languages :
            \E p \in tree :
                LET file == p[Len(p)]
                IN  /\ Len(p) \in {1, 2}
                    /\ ~starts_with_dot(file)
                    /\ ends_with(file, TRAINEDDATA)
                    /\ \/ Len(p) = 1 /\ r.language = NameOf(file) /\ r.model = None
                       \/ Len(p) = 2 /\ r.language = p[1] /\ r.model = Some(NameOf(file))

\* C12: no record's relative_path begins with the data path or ends with
\* ".traineddata".
C12_RelativePathIsBare ==
    pc = "serve" =>
        \A r \in available_tesseract_languages :
            /\ ~starts_with(r.relative_path[1], data_path)
            /\ ~ends_with(r.relative_path[1], TRAINEDDATA)

\* C13: the service never serves with a catalog obtained from a root
\* directory that cannot be read.
C13_UnreadableRootAbortsStartup == pc = "serve" => root_readable


-----------------------------------------------------------------------------
(* Properties of the service *)

\* C14: once the catalog is built no request changes it, whatever the
\* interleaving of images and languages requests: every request sees the set
\* built at startup.
C14_CatalogNeverMutated ==
    [][pc = "serve" => /\ available_tesseract_languages' = available_tesseract_languages
                       /\ available_tesseract_languages' = languages']_vars

C14_Witness ==
    /\ pc = "serve" /\ available_tesseract_languages # {}
    /\ languages_response # None /\ request.stage = "done"

\* C15: the catalog is built once and before any request is handled: a
\* request is handled only when the build is over, and the build never runs
\* again.
C15_BuiltOnceBeforeServing ==
    [][ /\ (request' # request \/ params' # params
              \/ languages_response' # languages_response) => pc = "serve"
        /\ pc = "serve" => (pc' = "serve" /\ UNCHANGED builder) ]_vars

C15_Witness ==
    /\ pc = "serve" /\ languages # {}
    /\ request.stage = "resolved" /\ languages_response # None

AllowedTypes ==
    { << "image/png" >>, << "image/jpg" >>, << "image/jpeg" >>, << "image/webp" >>,
      << "image/gif" >> }

\* C16: validate_file_type accepts exactly image/png, image/jpg, image/jpeg,
\* image/webp and image/gif and rejects any other type with InvalidRequest; a
\* request whose part declares another type ends so before its bytes are
\* read or decoded.
C16_FileTypeGate ==
    /\ \A t \in ContentTypes :
        IF t \in AllowedTypes THEN validate_file_type(t).err = None
        ELSE /\ validate_file_type(t).err # None
             /\ validate_file_type(t).err[1].kind = "InvalidRequest"
    /\ (request.content_type # None /\ request.stage # "field") =>
        IF request.content_type[1] \in AllowedTypes
        THEN request.stage = "typed" \/ "bytes" \in { request.steps[i] : i \in DOMAIN request.steps }
        ELSE /\ request.stage = "done"
             /\ request.outcome[1].err # None
             /\ request.outcome[1].err[1].kind = "InvalidRequest"
             /\ request.steps = << "next_field" >>

C16_Witness ==
    /\ request.stage = "done"
    /\ request.content_type \in { Some(<< "text/plain" >>), Some(<< >>) }
    /\ request.response[1].status = 400

C18_FailuresAreTaxonomyResponses ==
    request.stage \in { "done", "panicked" } =>
        IF request.outcome # None /\ request.outcome[1].ok # None
        THEN request.response # None /\ request.response[1].body = "text"
        ELSE /\ request.outcome # None /\ request.response # None
             /\ request.response[1].body = "message"
             /\ \/ /\ request.outcome[1].err[1].kind \in { "InvalidJsonBody", "InvalidRequest" }
                   /\ request.response[1].status = 400
                \/ /\ request.outcome[1].err[1].kind = "InternalError"
                   /\ request.response[1].status = 500

\* C19: a failure InvalidRequest(m) is answered 400 with the message m itself;
\* a model M asked of a language L that has only its record without a model is
\* answered "Model 'M' not found for language 'L'".
C19_InvalidRequestMessageVerbatim ==
    /\ (request.outcome # None /\ request.outcome[1].err # None
          /\ request.outcome[1].err[1].kind = "InvalidRequest") =>
        request.response[1] = [ status |-> 400, body |-> "message",
                                content |-> request.outcome[1].err[1].message ]
    /\ (request.stage = "done" /\ request.steps = << >>
          /\ Query.language # None /\ Query.model # None
          /\ Candidates # {} /\ Unqualified = Candidates) =>
        request.response[1] =
            [ status |-> 400, body |-> "message",
              content |-> << "Model '" >> \o Query.model[1]
                  \o << "' not found for language '" >> \o Query.language[1] \o << "'" >> ]

C19_Witness ==
    /\ request.stage = "done" /\ request.steps = << >>
    /\ Query.language # None /\ Query.model # None
    /\ Candidates # {} /\ Unqualified = Candidates
    /\ request.response[1].status = 400

\* r comes before s in the order of (language, model), no model first.
Precedes(r, s) ==
    \/ cmp_str(r.language, s.language) = "Less"
    \/ /\ r.language = s.language
       /\ \/ r.model = None /\ s.model # None
          \/ r.model # None /\ s.model # None /\ cmp_str(r.model[1], s.model[1]) = "Less"

\* C20: the languages endpoint answers with the records of the catalog, each
\* once, ascending by (language, model) with no model before any model, the
\* same for every iteration order of the hash set.
C20_LanguagesSorted ==
    languages_response # None =>
        LET listed == languages_response[1].content
        IN  /\ Len(listed) = Cardinality(available_tesseract_languages)
            /\ { listed[i] : i \in DOMAIN listed } = available_tesseract_languages
            /\ \A i, j \in DOMAIN listed : i < j => Precedes(listed[i], listed[j])
            /\ \A iter \in IterOrders(available_tesseract_languages) :
                   languages_handler(iter).response = languages_response[1]

C20_Witness ==
    /\ languages_response # None
    /\ Len(languages_response[1].content) >= 3
    /\ \E i, j \in DOMAIN languages_response[1].content :
        /\ languages_response[1].content[i].language = languages_response[1].content[j].language
        /\ languages_response[1].content[i].model = None
        /\ languages_response[1].content[j].model # None


-----------------------------------------------------------------------------
(* Properties of the images pipeline *)

Steps == { request.steps[i] : i \in DOMAIN request.steps }
Finished == request.stage \in { "done", "panicked" }
FailedWith(kind) ==
    /\ request.outcome # None /\ request.outcome[1].err # None
    /\ request.outcome[1].err[1].kind = kind

\* A u32 that fits i32, and a width whose scanline width * 3 fits i32.
FitsI32(x) == x.hi < 32768
ScanlineFits(w) == w.hi * 3 + ((w.lo * 3) \div 65536) < 32768
DimensionsFit ==
    FitsI32(request.width[1]) /\ FitsI32(request.height[1]) /\ ScanlineFits(request.width[1])
\* width * 3 as a number of two limbs, for a width whose scanline fits.
Scanline(w) == U32(w.hi * 3 + ((w.lo * 3) \div 65536), (w.lo * 3) % 65536)

\* C21: a decoded image whose width, height or scanline width * 3 does not fit
\* i32 makes the request fail with InvalidRequest; otherwise the engine gets
\* bytes-per-line exactly width * 3; the handler never panics.
C21_DimensionsCheckedExactly ==
    request.width # None =>
        /\ request.stage # "panicked"
        /\ ~DimensionsFit =>
            /\ "set_image" \notin Steps
            /\ request.stage = "done" => FailedWith("InvalidRequest")
        /\ (DimensionsFit /\ "set_image" \in Steps) =>
            request.bytes_per_line = Some(Scanline(request.width[1]))

\* C22: once a step has failed no later step is made: a finished request
\* changes only by a new request starting; a failed resolution has read no
\* part; a missing or disallowed content type has read no bytes, decoded
\* nothing and called no engine.
C22_ShortCircuit ==
    [][ /\ (request.outcome # None /\ request' # request) => request'.steps = << >>
        /\ (result # None /\ result[1].err # None) =>
               (request.stage = "done" /\ request.steps = << >>)
        /\ ("next_field" \in Steps /\ request.stage # "field"
              /\ (request.content_type = None \/ request.content_type[1] \notin AllowedTypes)) =>
               (request.stage = "done" /\ request.steps = << "next_field" >>) ]_vars

C22_Witness ==
    /\ request.stage = "done" /\ request.steps = << "next_field" >>
    /\ request.content_type = Some(<< "image/bmp" >>)
    /\ FailedWith("InvalidRequest")

\* C24: the checks of width, height and scanline are over before the engine
\* is used: when the width or the height does not fit i32, init is never
\* called and the request fails with InvalidRequest.
C24_DimensionChecksBeforeEngine ==
    (request.width # None /\ ~(FitsI32(request.width[1]) /\ FitsI32(request.height[1]))) =>
        /\ "init" \notin Steps
        /\ request.stage = "done" => FailedWith("InvalidRequest")


Disallowed == request.content_type # None /\ request.content_type[1] \notin AllowedTypes

\* C25: a content type outside the allow-list, text/plain and the empty string
\* included, is rejected with InvalidRequest and the message "Invalid file type".
C25_InvalidFileTypeMessage ==
    (Disallowed /\ request.stage = "done") =>
        /\ validate_file_type(request.content_type[1]) = request.outcome[1]
        /\ request.outcome[1] = Err(InvalidRequest(<< "Invalid file type" >>))

\* The InternalErrors the handler makes of the engine's messages.
EngineInternalErrors ==
    { init_error(m) : m \in TessErrors } \cup { set_image_error(m) : m \in TessErrors }

\* C26: the response to an InternalError is generic: it is the same for every
\* InternalError, whatever engine message the error wraps.
C26_InternalErrorResponseGeneric ==
    FailedWith("InternalError") =>
        \A e \in EngineInternalErrors : into_response(e) = request.response[1]

\* The part was asked for and the payload held none.
NoPart ==
    /\ "next_field" \in Steps /\ request.failed_call # Some("next_field")
    /\ request.field = None

\* C27 as claimed: a payload without a part fails with InvalidRequest and the
\* message "no image file provided".
C27_NoPartMessageLowercase ==
    NoPart => request.outcome[1] = Err(InvalidRequest(<< "no image file provided" >>))

\* C27: a payload without a part, after a successful resolution, fails with
\* InvalidRequest and the message "No image file provided"; nothing is read,
\* decoded or given to the engine.
C27_NoPartRejected ==
    NoPart =>
        /\ result[1].ok # None
        /\ request.stage = "done" /\ request.steps = << "next_field" >>
        /\ request.outcome[1] = Err(InvalidRequest(<< "No image file provided" >>))
        /\ request.response[1].status = 400

C27_Witness == NoPart /\ request.stage = "done" /\ request.tesseract_model # None


-----------------------------------------------------------------------------
(* Further properties of the catalog and of the resolution *)

\* C28: entries whose name begins with a dot are skipped at both depths: no
\* record has a language or a model that begins with a dot.
C28_NoDotNames ==
    \A r \in languages \cup available_tesseract_languages :
        /\ ~starts_with_dot(r.language)
        /\ r.model # None => ~starts_with_dot(r.model[1])

\* C29: a successful resolution returns a record of the catalog as it is, of
\* the effective language, and of the requested model when one is requested.
C29_ResolvedRecordIsCatalogued ==
    (Resolved /\ Outcome.ok # None) =>
        /\ Outcome.ok[1] \in available_tesseract_languages
        /\ Outcome.ok[1].language = EffectiveLanguage
        /\ Query.model # None => Outcome.ok[1].model = Query.model

C29_Witness ==
    /\ Resolved /\ Outcome.ok # None
    /\ Query.language # None /\ Query.model # None
    /\ Cardinality(Candidates) >= 2

\* validate_language_params succeeds on some order of the records of catalog.
ResolvedAgainst(q, catalog) ==
    { validate_language_params(q, iter, default_language) : iter \in IterOrders(catalog) }

\* C30: a query with language and model that is resolved to r against a part
\* of the catalog is resolved to r against the whole catalog.
C30_StableUnderGrowth ==
    (Resolved /\ Query.language # None /\ Query.model # None) =>
        \A smaller \in SUBSET available_tesseract_languages :
            \A small \in ResolvedAgainst(Query, smaller) :
                small.ok # None => Outcome = small

\* A query with language and model resolved the same against a smaller
\* catalog, where a query without a model of the same language changes from a
\* success to an error.
C30_Witness ==
    /\ Resolved /\ Query.language # None /\ Query.model # None /\ Outcome.ok # None
    /\ \E smaller \in SUBSET available_tesseract_languages :
        /\ smaller # available_tesseract_languages
        /\ Outcome \in ResolvedAgainst(Query, smaller)
        /\ LET unqualified == [ language |-> Query.language, model |-> None ]
           IN  /\ \A small \in ResolvedAgainst(unqualified, smaller) : small.ok # None
               /\ \A whole \in ResolvedAgainst(unqualified, available_tesseract_languages) :
                      whole.err # None


-----------------------------------------------------------------------------
(* Properties of requests handled at the same time *)

\* C23: whatever the interleaving, a finished request is what it is when run
\* alone on the same results against the catalog built at startup; each
\* request has an engine handle of its own; a request that has not finished
\* can always take its next step.
C23_ConcurrentRequestsIndependent ==
    \A id \in RequestIds :
        LET flight == inflight[id]
        IN  /\ flight.inputs.iter # None => flight.inputs.iter[1] \in IterOrders(languages)
            /\ flight.request.stage \in { "done", "panicked" } =>
                   flight.request = run_alone(id, flight.inputs, default_language)
            /\ flight.handle # None =>
                   \A other \in RequestIds \ {id} : inflight[other].handle # flight.handle
            /\ (pc = "serve" /\ flight.request.stage \notin { "done", "panicked" }) =>
                   ENABLED ConcurrentStep(id)

C23_Witness ==
    /\ inflight["r1"].request.stage = "done"
    /\ inflight["r1"].request.outcome[1].ok # None
    /\ inflight["r2"].request.stage = "imaged"
    /\ inflight["r1"].request.tesseract_model # inflight["r2"].request.tesseract_model

====
